---- MODULE Spec2Model ----
(***************************************************************************)
(* Model of src/setrun.py: setrun(claw_pkg) and, above all, setgeo(rundata),*)
(* which builds a synthetic storm track (a clawpack Storm object) from the  *)
(* run's time span and writes it to "my_storm.storm".                       *)
(*                                                                          *)
(* Numbers.  The code computes in IEEE doubles; the model computes in       *)
(* fixed point with four decimal digits (Scale = 10^4), every product and   *)
(* quotient being rounded toward zero.  TLC's integers are 32 bits wide, so *)
(* products are formed by MulDiv, which is exact on a wide intermediate.    *)
(*   seconds            : integers                                          *)
(*   degrees, radians   : value * Scale                                     *)
(*   wind speed         : (m/s) * Scale                                     *)
(*   max_wind_radius    : the stored number (metres), integer               *)
(*   central_pressure   : the stored number * Scale                         *)
(*   ambient_pressure   : the stored number * Scale                         *)
(*   storm_radius       : the stored number (metres), integer               *)
(***************************************************************************)
EXTENDS Integers, Sequences, FiniteSets, TLC

VARIABLES
    pc,          \* position of the one thread of control
    caller,      \* who called setgeo: "setrun", "direct", or "none"
    claw_pkg,    \* the argument of setrun
    clawdata,    \* rundata.clawdata: [t0, tfinal]
    geo_data,    \* rundata.geo_data: [ambient_pressure]
    t_series,    \* the local t_series of setgeo
    my_storm,    \* the Storm object: its per-sample fields
    storm_file,  \* what my_storm.write left in "my_storm.storm"
    probe,       \* inputs and results of a formula evaluated on its own
    cwd,         \* the working directory of the process, a path
    surge_data,  \* rundata.surge_data: [storm_file]
    writes       \* the number of calls of my_storm.write so far

vars == <<pc, caller, claw_pkg, clawdata, geo_data, t_series, my_storm,
          storm_file, probe, cwd, surge_data, writes>>

----------------------------------------------------------------------------
(* Fixed-point arithmetic *)

Scale == 10^4

None == <<>>

Abs(x) == IF x < 0 THEN -x ELSE x

\* <<quotient, remainder>> of r * m divided by d, for 0 <= r < d, m >= 0,
\* by binary long multiplication: no intermediate exceeds 3 * d.
RECURSIVE QuotRem(_, _, _)
QuotRem(r, m, d) ==
    IF m = 0 THEN <<0, 0>>
    ELSE LET h   == QuotRem(r, m \div 2, d)
             rem == 2 * h[2] + (m % 2) * r
         IN  <<2 * h[1] + rem \div d, rem % d>>

\* floor(x * m / d) for x >= 0, m >= 0, d > 0; the long multiplication is
\* needed only where the product of the remainder exceeds 32 bits
MulDivNat(x, m, d) ==
    LET r == x % d
    IN  (x \div d) * m
        + (IF m = 0 \/ r <= 2147483647 \div m THEN (r * m) \div d
           ELSE QuotRem(r, m, d)[1])

\* x * m / d rounded toward zero (d > 0)
MulDiv(x, m, d) ==
    IF (x < 0) = (m < 0) THEN MulDivNat(Abs(x), Abs(m), d)
    ELSE -MulDivNat(Abs(x), Abs(m), d)

\* product of two fixed-point numbers
Mul(x, y) == MulDiv(x, y, Scale)

\* quotient of two fixed-point numbers (y > 0)
Div(x, y) == MulDiv(x, Scale, y)

\* integer square root: the largest r with r * r <= n
RECURSIVE ISqrt(_, _, _)
ISqrt(n, lo, hi) ==
    IF lo >= hi THEN lo
    ELSE LET mid == (lo + hi + 1) \div 2
         IN  IF mid * mid <= n THEN ISqrt(n, mid, hi) ELSE ISqrt(n, lo, mid - 1)

\* np.sqrt of a fixed-point number 0 <= x <= 16
Sqrt(x) == ISqrt(x * Scale, 0, 4 * Scale)

\* x ** n, as the code's ** on a fixed-point number
RECURSIVE Pow(_, _)
Pow(x, n) == IF n = 0 THEN Scale ELSE Mul(Pow(x, n - 1), x)

\* sum over n >= k of (-f)^n / n!, given term = f^(k-1) / (k-1)!, 0 <= f <= 1
RECURSIVE ExpSeries(_, _, _)
ExpSeries(f, term, k) ==
    LET next == MulDiv(term, f, k * Scale)
    IN  IF next = 0 THEN 0
        ELSE (IF k % 2 = 1 THEN -next ELSE next) + ExpSeries(f, next, k + 1)

\* e^(-n) for a natural number n, by repeated multiplication
RECURSIVE ExpNegInt(_)
ExpNegInt(n) ==
    IF n = 0 THEN Scale
    ELSE LET p == ExpNegInt(n - 1)
         IN  IF p = 0 THEN 0 ELSE Mul(p, Scale + ExpSeries(Scale, Scale, 1))

\* np.exp(x) for a fixed-point x <= 0
Exp(x) ==
    LET y == -x
    IN  Mul(ExpNegInt(y \div Scale), Scale + ExpSeries(y % Scale, Scale, 1))

\* sum over n >= k of (-1)^n x^(2n) / (2n)!, given term = x^(2k-2) / (2k-2)!
RECURSIVE CosSeries(_, _, _)
CosSeries(x2, term, k) ==
    LET next == MulDiv(Mul(term, x2), 1, (2 * k - 1) * (2 * k))
    IN  IF next = 0 THEN 0
        ELSE (IF k % 2 = 1 THEN -next ELSE next) + CosSeries(x2, next, k + 1)

\* np.cos(x) for a fixed-point x in radians, |x| <= 2
Cos(x) == Scale + CosSeries(Mul(x, x), Scale, 1)

\* n / d (d > 0) cut to an integer as dtype=int cuts a double; the spans
\* tried are not negative, where cutting toward zero and toward minus
\* infinity (numpy from 1.20 on) give the same
TruncDiv(n, d) == IF n >= 0 THEN n \div d ELSE -((-n) \div d)

\* np.linspace(start, stop, num, dtype=int) for integral start and stop:
\* the num evenly spaced points from start to stop, each cut to an integer
linspace(start, stop, num) ==
    [i \in 1..num |->
        IF i = num THEN stop
        ELSE TruncDiv(start * (num - 1) + (i - 1) * (stop - start), num - 1)]

\* the .transpose() of a k x n array held as a sequence of rows
transpose(m) ==
    [i \in 1..Len(m[1]) |-> [k \in 1..Len(m) |-> m[k][i]]]

\* np.ones(n)
ones(n) == [i \in 1..n |-> 1]

----------------------------------------------------------------------------
(* Module-level definitions of setrun.py *)

\* days2seconds left out: the span taken in days
days2seconds_omitted(days) == days

days2seconds(days) == days * 60 * 60 * 24

\* scratch_dir = CLAW / 'geoclaw' / 'scratch', a path as its components
scratch_dir == <<"claw", "geoclaw", "scratch">>

Lower(s) ==
    CASE s = "geoclaw" -> "geoclaw"
      [] s = "GeoClaw" -> "geoclaw"
      [] s = "amrclaw" -> "amrclaw"

----------------------------------------------------------------------------
(* The constants and formulas of setgeo *)

\* (Path() / 'my_storm.storm').resolve() with the scratch directory taken
\* for the working directory
resolve_scratch(dir, path) == scratch_dir \o path

\* (Path() / path).resolve() in working directory dir: the absolute path
resolve(dir, path) == dir \o path

\* the file a relative path names when it is opened in working directory dir
opened(dir, path) == dir \o path

forecasts == 16

\* np.datetime64("2008-09-13T07"), in seconds since 1970-01-01T00
time_offset == 1221289200

\* geo_data.ambient_pressure = 101.3e3, times Scale
ambient_pressure == 1013000000

\* storm_t with the elapsed times taken as minutes: np.timedelta64(t, 'm')
storm_t_minutes(ts) == [i \in DOMAIN ts |-> time_offset + 60 * ts[i]]

\* my_storm.t: one datetime64 per entry of t_series
storm_t(ts) == [i \in DOMAIN ts |-> time_offset + ts[i]]

eye_init == <<-80 * Scale, 15 * Scale>>

\* v of storm_location, in degrees per second, as the fractions num[k] / den
v == [num |-> <<-(Sqrt(2 * Scale) * 15), Sqrt(2 * Scale) * 15>>,
      den |-> 110 * 3600]

\* storm_location with the sign of the longitude component of v lost: the eye
\* moves north-east
storm_location_north_east(t) ==
    [k \in 1..2 |-> [i \in DOMAIN t |-> MulDiv(t[i], v.num[2], v.den)
                                         + eye_init[k]]]

\* storm_location(t) for an array t: a list of two arrays, longitudes and
\* latitudes (fixed point)
storm_location(t) ==
    [k \in 1..2 |-> [i \in DOMAIN t |-> MulDiv(t[i], v.num[k], v.den)
                                         + eye_init[k]]]

\* envelope with the minus sign in front of the exponential instead of
\* inside it: -100 * exp((t - T/2)^2 / ...) cut down to the sign slip
envelope_negative(ts) ==
    LET T == ts[Len(ts)]
    IN  [i \in DOMAIN ts |->
            -100 * Exp(-Pow(MulDiv(4 * ts[i] - 2 * T, Scale, T), 2))]

\* the Gaussian intensity envelope of line 495, elementwise over t_series:
\* 100 * exp(-(t - T/2)^2 / (T/4)^2) with T = t_series[-1] > 0, the quotient
\* of the two squares being formed as the square of (4t - 2T) / T
envelope(ts) ==
    LET T == ts[Len(ts)]
    IN  [i \in DOMAIN ts |->
            100 * Exp(-Pow(MulDiv(4 * ts[i] - 2 * T, Scale, T), 2))]

C0 == 2183784

\* radius_regression with the sign of the quadratic term flipped
radius_regression_minus(V, lat) ==
    C0 - Mul(12014, V)
       - Pow(Div(V, 109884), 2)
       - Pow(Div(V, 353052), 3)
       - Mul(1455090, Cos(MulDiv(lat, 174533, 10^7)))

\* radius_regression with a fourth-order term, (V / 60) ** 4
radius_regression_quartic(V, lat) ==
    C0 - Mul(12014, V)
       + Pow(Div(V, 109884), 2)
       - Pow(Div(V, 353052), 3)
       + Pow(Div(V, 60 * Scale), 4)
       - Mul(1455090, Cos(MulDiv(lat, 174533, 10^7)))

\* the regression of lines 500-505 for one sample, before the factor 1000:
\* wind speed V and eye latitude lat (degrees) to kilometres
radius_regression(V, lat) ==
    C0 - Mul(12014, V)
       + Pow(Div(V, 109884), 2)
       - Pow(Div(V, 353052), 3)
       - Mul(1455090, Cos(MulDiv(lat, 174533, 10^7)))

\* max_wind_radius with the latitude of the first sample used for all:
\* eye_location[0, 1] for eye_location[:, 1]
max_wind_radius_first_row(max_wind_speed, eye_location) ==
    [i \in DOMAIN max_wind_speed |->
        MulDiv(radius_regression(max_wind_speed[i], eye_location[1][2]),
               1000, Scale)]

\* lines 502-505, elementwise: eye_location[:, 1] is the second column
max_wind_radius(max_wind_speed, eye_location) ==
    [i \in DOMAIN max_wind_speed |->
        MulDiv(radius_regression(max_wind_speed[i], eye_location[i][2]),
               1000, Scale)]

a == -25
b == -3600
c == 10213600

\* central_pressure with the sign of the quadratic term lost
central_pressure_convex(max_wind_speed) ==
    [i \in DOMAIN max_wind_speed |->
        Mul(-a, Pow(max_wind_speed[i], 2)) + Mul(b, max_wind_speed[i]) + c]

\* lines 511-513, elementwise
central_pressure(max_wind_speed) ==
    [i \in DOMAIN max_wind_speed |->
        Mul(a, Pow(max_wind_speed[i], 2)) + Mul(b, max_wind_speed[i]) + c]

\* storm_radius with a zero dropped: 30 km
storm_radius_30km(t) == [i \in DOMAIN t |-> 30000 * ones(Len(t))[i]]

\* line 516: 300000 * np.ones(my_storm.t.shape)
storm_radius(t) == [i \in DOMAIN t |-> 300000 * ones(Len(t))[i]]

----------------------------------------------------------------------------
(* Inputs *)

MaxDays == 4

\* the working directories tried: a run directory and the scratch directory
Dirs == {<<"home", "run">>, scratch_dir}

\* the values of claw_pkg tried: two spellings setrun accepts and one it rejects
ClawPkgs == {"geoclaw", "GeoClaw", "amrclaw"}

\* the time spans (t0, tfinal) setgeo is called with when it is called on a
\* rundata that setrun did not fill: whole days, and the short and the
\* non-increasing spans 0..50, 100..50 and 100..100
T0Set == {0, 100}
TfinalSet == {50, 100} \cup {days2seconds(d) : d \in 1..MaxDays}

\* the wind speeds the envelope can yield, 0..100 m/s, in steps of 1 m/s,
\* and those of the range the pressure regression is calibrated for
WindSpeeds == {k * Scale : k \in 0..100}
CalibratedSpeeds == {k * Scale : k \in 10..90}

\* eye latitudes from the first to beyond the last of the four-day track
Latitudes == {15 * Scale, 25 * Scale, 34 * Scale}

TwinSpeeds == {10 * Scale, 50 * Scale, 90 * Scale}
TwinLatitudes == {15 * Scale, 30 * Scale}
TwinLongitudes == {-80 * Scale, -90 * Scale}

\* a storm of two samples given by its eye longitude, wind speeds and eye
\* latitudes
Samples(lon, V1, lat1, V2, lat2) ==
    [max_wind_speed |-> <<V1, V2>>,
     eye_location   |-> <<<<lon, lat1>>, <<lon, lat2>>>>]

\* pairs A, B of two-sample storms:
\*  - every pair of calibrated wind speeds at the initial latitude (B = A);
\*  - every wind speed at every pair of latitudes (B = A);
\*  - two storms over a few values, free to differ in either sample and in
\*    the eye longitude
ProbeInputs ==
    {[A |-> Samples(eye_init[1], V1, eye_init[2], V2, eye_init[2]),
      B |-> Samples(eye_init[1], V1, eye_init[2], V2, eye_init[2])] :
        V1 \in CalibratedSpeeds, V2 \in CalibratedSpeeds}
    \cup
    {[A |-> Samples(eye_init[1], V, lat1, V, lat2),
      B |-> Samples(eye_init[1], V, lat1, V, lat2)] :
        V \in WindSpeeds, lat1 \in Latitudes, lat2 \in Latitudes}
    \cup
    {[A |-> Samples(eye_init[1], p[1], p[2], p[3], p[4]),
      B |-> Samples(lon, q[1], q[2], q[3], q[4])] :
        p \in TwinSpeeds \X TwinLatitudes \X TwinSpeeds \X TwinLatitudes,
        q \in TwinSpeeds \X TwinLatitudes \X TwinSpeeds \X TwinLatitudes,
        lon \in TwinLongitudes}

----------------------------------------------------------------------------
(* State machine *)

\* Storm(file_format="geoclaw"): every field unset
Storm ==
    [t |-> None, eye_location |-> None, max_wind_speed |-> None,
     max_wind_radius |-> None, central_pressure |-> None, storm_radius |-> None]

InitRun ==
    /\ pc = "idle"
    /\ probe = None
    /\ cwd \in Dirs

InitProbe ==
    /\ pc = "probe"
    /\ probe \in ProbeInputs
    /\ cwd = None

Init ==
    /\ InitRun \/ InitProbe
    /\ caller = "none"
    /\ claw_pkg = "none"
    /\ clawdata = None
    /\ geo_data = None
    /\ t_series = None
    /\ my_storm = None
    /\ storm_file = None
    /\ surge_data = None
    /\ writes = 0

\* setrun(claw_pkg) up to its call of setgeo (lines 35-388)
Setrun(pkg) ==
    /\ pc = "idle"
    /\ claw_pkg' = pkg
    /\ IF Lower(pkg) = "geoclaw"
       THEN /\ clawdata' = [t0 |-> 0, tfinal |-> days2seconds(4)]
            /\ caller' = "setrun"
            /\ pc' = "setgeo"
       ELSE /\ pc' = "AssertionError"
            /\ UNCHANGED <<clawdata, caller>>
    /\ UNCHANGED <<geo_data, t_series, my_storm, storm_file, probe, cwd, surge_data, writes>>

\* setgeo(rundata) called on a rundata filled by someone else
SetgeoCall(t0, tfinal) ==
    /\ pc = "idle"
    /\ clawdata' = [t0 |-> t0, tfinal |-> tfinal]
    /\ caller' = "direct"
    /\ pc' = "setgeo"
    /\ UNCHANGED <<claw_pkg, geo_data, t_series, my_storm, storm_file, probe, cwd, surge_data, writes>>

\* lines 404-479: the physics, refinement, topography and surge parameters
SetParameters ==
    /\ pc = "setgeo"
    /\ geo_data' = [ambient_pressure |-> ambient_pressure]
    /\ surge_data' = [storm_specification_type |-> "holland80",
                      storm_file |-> resolve(cwd, <<"my_storm.storm">>)]
    /\ pc' = "storm"
    /\ UNCHANGED <<caller, claw_pkg, clawdata, t_series, my_storm, storm_file,
                   probe, cwd, writes>>

\* lines 482-487
StormTimes ==
    /\ pc = "storm"
    /\ t_series' = linspace(clawdata.t0, clawdata.tfinal, forecasts)
    /\ my_storm' = [Storm EXCEPT !.t = storm_t(t_series')]
    /\ pc' = "eye_location"
    /\ UNCHANGED <<caller, claw_pkg, clawdata, geo_data, storm_file, probe, cwd, surge_data, writes>>

\* lines 489-494
EyeLocation ==
    /\ pc = "eye_location"
    /\ my_storm' = [my_storm EXCEPT
                      !.eye_location = transpose(storm_location(t_series))]
    /\ pc' = "max_wind_speed"
    /\ UNCHANGED <<caller, claw_pkg, clawdata, geo_data, t_series, storm_file, probe, cwd, surge_data, writes>>

\* lines 495-497
MaxWindSpeed ==
    /\ pc = "max_wind_speed"
    /\ my_storm' = [my_storm EXCEPT !.max_wind_speed = envelope(t_series)]
    /\ pc' = "max_wind_radius"
    /\ UNCHANGED <<caller, claw_pkg, clawdata, geo_data, t_series, storm_file, probe, cwd, surge_data, writes>>

\* lines 499-505
MaxWindRadius ==
    /\ pc = "max_wind_radius"
    /\ my_storm' = [my_storm EXCEPT
                      !.max_wind_radius =
                          max_wind_radius(my_storm.max_wind_speed,
                                          my_storm.eye_location)]
    /\ pc' = "central_pressure"
    /\ UNCHANGED <<caller, claw_pkg, clawdata, geo_data, t_series, storm_file, probe, cwd, surge_data, writes>>

\* lines 507-513
CentralPressure ==
    /\ pc = "central_pressure"
    /\ my_storm' = [my_storm EXCEPT
                      !.central_pressure = central_pressure(my_storm.max_wind_speed)]
    /\ pc' = "storm_radius"
    /\ UNCHANGED <<caller, claw_pkg, clawdata, geo_data, t_series, storm_file, probe, cwd, surge_data, writes>>

\* line 516
StormRadius ==
    /\ pc = "storm_radius"
    /\ my_storm' = [my_storm EXCEPT !.storm_radius = storm_radius(my_storm.t)]
    /\ pc' = "write"
    /\ UNCHANGED <<caller, claw_pkg, clawdata, geo_data, t_series, storm_file, probe, cwd, surge_data, writes>>

\* the write of line 518 moved up in front of line 516
Write_before_storm_radius ==
    /\ pc = "storm_radius"
    /\ writes = 0
    /\ storm_file' = [path |-> opened(cwd, <<"my_storm.storm">>),
                      file_format |-> "geoclaw", storm |-> my_storm]
    /\ writes' = writes + 1
    /\ UNCHANGED <<pc, caller, claw_pkg, clawdata, geo_data, t_series, my_storm,
                   probe, cwd, surge_data>>

\* line 518: my_storm.write("my_storm.storm", file_format='geoclaw')
Write ==
    /\ pc = "write"
    /\ storm_file' = [path |-> opened(cwd, <<"my_storm.storm">>),
                      file_format |-> "geoclaw", storm |-> my_storm]
    /\ writes' = writes + 1
    /\ pc' = "return"
    /\ UNCHANGED <<caller, claw_pkg, clawdata, geo_data, t_series, my_storm,
                   probe, cwd, surge_data>>

\* lines 519-530, and for setrun lines 389-392
Return ==
    /\ pc = "return"
    /\ pc' = "done"
    /\ UNCHANGED <<caller, claw_pkg, clawdata, geo_data, t_series, my_storm,
                   storm_file, probe, cwd, surge_data, writes>>

\* lines 499-516 applied to a storm given by its wind speeds and eye locations
Derive(storm) ==
    [max_wind_speed   |-> storm.max_wind_speed,
     eye_location     |-> storm.eye_location,
     max_wind_radius  |-> max_wind_radius(storm.max_wind_speed, storm.eye_location),
     central_pressure |-> central_pressure(storm.max_wind_speed),
     storm_radius     |-> storm_radius(storm.max_wind_speed)]

Evaluate ==
    /\ pc = "probe"
    /\ probe' = [A |-> Derive(probe.A), B |-> Derive(probe.B)]
    /\ pc' = "probed"
    /\ UNCHANGED <<caller, claw_pkg, clawdata, geo_data, t_series, my_storm, storm_file, cwd, surge_data, writes>>

Next ==
    \/ \E pkg \in ClawPkgs : Setrun(pkg)
    \/ \E t0 \in T0Set, tfinal \in TfinalSet : SetgeoCall(t0, tfinal)
    \/ SetParameters
    \/ StormTimes
    \/ EyeLocation
    \/ MaxWindSpeed
    \/ MaxWindRadius
    \/ CentralPressure
    \/ StormRadius
    \/ Write
    \/ Return
    \/ Evaluate

Spec == Init /\ [][Next]_vars

----------------------------------------------------------------------------
(* Positions of setgeo at which a field of my_storm has been assigned *)

HasT == pc \in {"eye_location", "max_wind_speed", "max_wind_radius",
                "central_pressure", "storm_radius", "write", "return", "done"}
HasMaxWindSpeed == pc \in {"max_wind_radius", "central_pressure", "storm_radius",
                           "write", "return", "done"}
HasMaxWindRadius == pc \in {"central_pressure", "storm_radius", "write",
                            "return", "done"}
HasCentralPressure == pc \in {"storm_radius", "write", "return", "done"}
Assembled == pc \in {"write", "return", "done"}
Probed == pc = "probed"

PerSampleFields == {"t", "eye_location", "max_wind_speed", "max_wind_radius",
                    "central_pressure", "storm_radius"}

----------------------------------------------------------------------------
(* Claims *)

\* C1: once setgeo has assembled the storm, each of the six per-sample
\* fields has as many entries as t_series, which has forecasts = 16; entry i
\* belongs to t_series[i] (the eye location is the one storm_location gives
\* for that time), and the timestamp of sample i is time_offset plus
\* t_series[i] seconds.
C1_OneSamplePerTime ==
    Assembled =>
        /\ Len(t_series) = forecasts
        /\ \A f \in PerSampleFields : Len(my_storm[f]) = Len(t_series)
        /\ \A i \in 1..Len(t_series) :
              /\ my_storm.t[i] - time_offset = t_series[i]
              /\ Len(my_storm.eye_location[i]) = 2
              /\ my_storm.eye_location[i][1] = storm_location(t_series)[1][i]
              /\ my_storm.eye_location[i][2] = storm_location(t_series)[2][i]

C1_Witness ==
    /\ pc = "done"
    /\ caller = "setrun"
    /\ Len(my_storm.storm_radius) = 16
    /\ my_storm.t[16] = time_offset + 345600

\* C2: in every sample of a storm setgeo has assembled, and in every storm
\* derived from wind speeds of 0..100 m/s, storm_radius is at least
\* max_wind_radius.
C2_StormRadiusCoversMaxWindRadius ==
    /\ Assembled =>
          \A i \in 1..Len(my_storm.t) :
              my_storm.storm_radius[i] >= my_storm.max_wind_radius[i]
    /\ Probed =>
          \A i \in 1..2 :
              probe.A.storm_radius[i] >= probe.A.max_wind_radius[i]

C2_Witness ==
    /\ pc = "done"
    /\ caller = "setrun"
    /\ \E i \in 1..Len(my_storm.t) :
          /\ my_storm.max_wind_radius[i] > 90000
          /\ my_storm.storm_radius[i] = 300000

\* C3: for every sample with max_wind_speed > 0 the central pressure, taken
\* in the unit of ambient_pressure (the regression yields hectopascals, 100 Pa
\* each; ambient_pressure is in pascals), is at most ambient_pressure.
C3_CentralAtMostAmbient ==
    HasCentralPressure =>
        \A i \in 1..Len(my_storm.t) :
            my_storm.max_wind_speed[i] > 0 =>
                100 * my_storm.central_pressure[i] <= geo_data.ambient_pressure

\* the pressure regression does not increase from sample i to sample j of
\* storm s when both wind speeds are calibrated ones and V[i] <= V[j], and
\* it is strictly lower at 80 m/s than at 50 m/s
NonIncreasing(s) ==
    \A i, j \in DOMAIN s.max_wind_speed :
        LET Vi == s.max_wind_speed[i]
            Vj == s.max_wind_speed[j]
        IN  /\ (10 * Scale <= Vi /\ Vi <= Vj /\ Vj <= 90 * Scale) =>
                   s.central_pressure[j] <= s.central_pressure[i]
            /\ (Vi = 50 * Scale /\ Vj = 80 * Scale) =>
                   s.central_pressure[j] < s.central_pressure[i]

\* C4: over 10..90 m/s the central pressure is monotonically non-increasing
\* in the wind speed (for every pair of calibrated speeds, and between the
\* samples of the storm setgeo builds), and strictly lower at V = 80 than at
\* V = 50.
C4_PressureNonIncreasing ==
    /\ Probed => NonIncreasing(probe.A)
    /\ HasCentralPressure => NonIncreasing(my_storm)

C4_Witness ==
    /\ Probed
    /\ probe.A.max_wind_speed = <<50 * Scale, 80 * Scale>>
    /\ probe.A.central_pressure[2] < probe.A.central_pressure[1]

\* C5: the central_pressure stored in every sample is a pressure in pascals:
\* of the order of magnitude of ambient_pressure = 101.3e3 Pa (within a
\* factor of ten of it).
C5_PressureInPascals ==
    HasCentralPressure =>
        \A i \in 1..Len(my_storm.t) :
            /\ 10 * my_storm.central_pressure[i] >= geo_data.ambient_pressure
            /\ my_storm.central_pressure[i] \div 10 <= geo_data.ambient_pressure

StrictlyIncreasing(seq) ==
    \A i, j \in DOMAIN seq : i < j => seq[i] < seq[j]

\* C6: the time grid setgeo builds for the run setrun defines (t0 = 0,
\* tfinal = days2seconds(4)) is strictly increasing and has at least 2
\* entries, and so are the timestamps of the storm: ascending, no duplicate.
C6_TimeGridStrictlyIncreasing ==
    (caller = "setrun" /\ HasT) =>
        /\ Len(t_series) >= 2
        /\ StrictlyIncreasing(t_series)
        /\ Len(my_storm.t) >= 2
        /\ StrictlyIncreasing(my_storm.t)

C6_Witness ==
    /\ caller = "setrun"
    /\ pc = "done"
    /\ t_series[1] = 0
    /\ t_series[2] > t_series[1]
    /\ my_storm.t[Len(my_storm.t)] > my_storm.t[1]

\* C7: max_wind_radius is strictly positive in every sample of a storm
\* setgeo builds, and for every wind speed of 0..100 m/s at every latitude
\* of the four-day track.
C7_MaxWindRadiusPositive ==
    /\ HasMaxWindRadius =>
          \A i \in 1..Len(my_storm.t) : my_storm.max_wind_radius[i] > 0
    /\ Probed =>
          \A i \in 1..2 : probe.A.max_wind_radius[i] > 0

C7_Witness ==
    /\ Probed
    /\ probe.A.max_wind_speed[1] = 100 * Scale
    /\ probe.A.eye_location[1][2] = 15 * Scale
    /\ probe.A.max_wind_radius[1] > 0
    /\ probe.A.max_wind_radius[1] < 20000

\* the derived values of sample i of storm s and of sample j of storm r agree
\* wherever the samples' own inputs agree: the radius where wind speed and
\* eye latitude do, the pressure where the wind speed does
SameInputsSameDerived(s, i, r, j) ==
    /\ (/\ s.max_wind_speed[i] = r.max_wind_speed[j]
        /\ s.eye_location[i][2] = r.eye_location[j][2]) =>
           s.max_wind_radius[i] = r.max_wind_radius[j]
    /\ s.max_wind_speed[i] = r.max_wind_speed[j] =>
           s.central_pressure[i] = r.central_pressure[j]

\* C8: max_wind_radius[i] depends only on max_wind_speed[i] and the eye
\* latitude of sample i, central_pressure[i] only on max_wind_speed[i]: of two
\* storms A and B built from inputs that differ in any way (other samples'
\* wind speed, latitude, the longitude), samples with the same wind speed and
\* latitude get the same radius, samples with the same wind speed the same
\* pressure; the same holds between the samples of the storm setgeo builds.
C8_DerivedDependOnOwnSample ==
    /\ Probed =>
          \A i, j \in 1..2 :
              /\ SameInputsSameDerived(probe.A, i, probe.B, j)
              /\ SameInputsSameDerived(probe.A, i, probe.A, j)
    /\ HasCentralPressure =>
          \A i, j \in 1..Len(my_storm.t) :
              SameInputsSameDerived(my_storm, i, my_storm, j)

\* two storms that agree in sample 2 and differ in wind speed, latitude and
\* longitude of sample 1
C8_Witness ==
    /\ Probed
    /\ probe.A.max_wind_speed[2] = probe.B.max_wind_speed[2]
    /\ probe.A.eye_location[2][2] = probe.B.eye_location[2][2]
    /\ probe.A.max_wind_speed[1] # probe.B.max_wind_speed[1]
    /\ probe.A.eye_location[1][2] # probe.B.eye_location[1][2]
    /\ probe.A.eye_location[1][1] # probe.B.eye_location[1][1]
    /\ probe.A.max_wind_radius[1] # probe.B.max_wind_radius[1]
    /\ probe.A.max_wind_radius[2] = probe.B.max_wind_radius[2]
    /\ probe.A.central_pressure[2] = probe.B.central_pressure[2]

\* the radius of maximum winds stored for one sample
RadiusAt(V, lat) == max_wind_radius(<<V>>, <<<<eye_init[1], lat>>>>)[1]

\* third and fourth forward differences of RadiusAt in V, with step 20 m/s
Difference3(V, lat) ==
    LET h == 20 * Scale
    IN  RadiusAt(V + 3 * h, lat) - 3 * RadiusAt(V + 2 * h, lat)
        + 3 * RadiusAt(V + h, lat) - RadiusAt(V, lat)

Difference4(V, lat) ==
    LET h == 20 * Scale
    IN  RadiusAt(V + 4 * h, lat) - 4 * RadiusAt(V + 3 * h, lat)
        + 6 * RadiusAt(V + 2 * h, lat) - 4 * RadiusAt(V + h, lat)
        + RadiusAt(V, lat)

\* the latitude enters the radius of storm s through the term
\* -145.5090 km * cos(latitude in radians) alone, whatever the wind speed;
\* and with no wind, where the cosine vanishes, the radius is the constant
\* 218.3784 km in metres (each to within 20 m of rounding)
CosineCorrectionInMetres(s) ==
    /\ s.max_wind_speed[1] = s.max_wind_speed[2] =>
          Abs((s.max_wind_radius[1] - s.max_wind_radius[2])
              - MulDiv(1455090,
                       Cos(MulDiv(s.eye_location[2][2], 174533, 10^7))
                       - Cos(MulDiv(s.eye_location[1][2], 174533, 10^7)),
                       10 * Scale)) <= 20
    /\ Abs(RadiusAt(0, 90 * Scale) - 218378) <= 20

\* C9 as stated: the radius of maximum winds is a fourth-order polynomial in
\* V (its fourth difference in V does not vanish) plus a cosine-of-latitude
\* correction, in metres.
C9_FourthOrderPolynomial ==
    Probed =>
        /\ CosineCorrectionInMetres(probe.A)
        /\ probe.A.max_wind_speed[1] <= 20 * Scale =>
              Abs(Difference4(probe.A.max_wind_speed[1],
                              probe.A.eye_location[1][2])) > 20

\* C9, amended: the radius of maximum winds is a third-order polynomial in V
\* (its fourth difference in V vanishes to within rounding, its third does
\* not) plus a cosine-of-latitude correction, in metres.
C9_ThirdOrderPolynomial ==
    Probed =>
        /\ CosineCorrectionInMetres(probe.A)
        /\ probe.A.max_wind_speed[1] <= 20 * Scale =>
              /\ Abs(Difference4(probe.A.max_wind_speed[1],
                                 probe.A.eye_location[1][2])) <= 20
              /\ Abs(Difference3(probe.A.max_wind_speed[1],
                                 probe.A.eye_location[1][2])) > 20

C9_Witness ==
    /\ Probed
    /\ probe.A.max_wind_speed = <<20 * Scale, 20 * Scale>>
    /\ probe.A.eye_location[1][2] = 15 * Scale
    /\ probe.A.eye_location[2][2] = 34 * Scale
    /\ probe.A.max_wind_radius[1] = RadiusAt(20 * Scale, 15 * Scale)
    /\ probe.A.max_wind_radius[2] > probe.A.max_wind_radius[1]
    /\ Difference3(20 * Scale, 15 * Scale) < -1000

\* C10: a time grid that has fewer than 2 entries or is not strictly
\* increasing makes the build fail: no storm file is written and setgeo does
\* not run to completion.
C10_BadTimeGridFails ==
    (HasT /\ ~(Len(t_series) >= 2 /\ StrictlyIncreasing(t_series))) =>
        /\ storm_file = None
        /\ pc # "done"

\* C11: no sample carries a negative max_wind_speed: from its assignment on,
\* every entry of my_storm.max_wind_speed is >= 0, in the storm setgeo keeps
\* and in the one it wrote; setgeo never ends in an error on account of the
\* envelope.
C11_MaxWindSpeedNonNegative ==
    /\ HasMaxWindSpeed =>
          \A i \in 1..Len(my_storm.max_wind_speed) :
              my_storm.max_wind_speed[i] >= 0
    /\ storm_file # None =>
          \A i \in 1..Len(storm_file.storm.max_wind_speed) :
              storm_file.storm.max_wind_speed[i] >= 0
    /\ pc # "ValueationError"

C11_Witness ==
    /\ pc = "done"
    /\ caller = "setrun"
    /\ my_storm.max_wind_speed[1] > 0
    /\ my_storm.max_wind_speed[1] < 2 * Scale
    /\ my_storm.max_wind_speed[8] > 98 * Scale
    /\ storm_file.storm.max_wind_speed = my_storm.max_wind_speed

AllFieldsAssigned(storm) ==
    /\ storm # None
    /\ \A f \in PerSampleFields : storm[f] # None

\* C12: the storm is built once and written exactly once: my_storm.write runs
\* at most once, and has run once when setgeo has returned; the step that
\* writes finds all six per-sample fields assigned and writes those fields;
\* once built the storm object is never replaced, and after the write no
\* field of it is assigned again.
C12_WrittenOnceAfterAllFields ==
    /\ [](writes <= 1)
    /\ [](pc = "done" => writes = 1)
    /\ [][writes' # writes =>
             /\ writes' = 1
             /\ AllFieldsAssigned(my_storm)
             /\ storm_file'.storm = my_storm]_vars
    /\ [][my_storm # None => my_storm' # None]_vars
    /\ [][writes >= 1 => my_storm' = my_storm]_vars

C12_Witness ==
    /\ pc = "done"
    /\ writes = 1
    /\ AllFieldsAssigned(my_storm)
    /\ storm_file.storm = my_storm
    /\ Len(storm_file.storm.storm_radius) = forecasts

\* C14: on the grid setrun hands to setgeo (t0 = 0, tfinal = 4 days) the 16
\* time steps lie 6 hours apart: the first is 0, the last 345600, and
\* consecutive entries of t_series differ by exactly 21600 seconds.
C14_SixHourSteps ==
    (caller = "setrun" /\ HasT) =>
        /\ Len(t_series) = forecasts
        /\ t_series[1] = 0
        /\ t_series[forecasts] = days2seconds(4)
        /\ \A i \in 1..(forecasts - 1) :
              t_series[i + 1] - t_series[i] = 6 * 3600

HasEyeLocation == pc \in {"max_wind_speed", "max_wind_radius", "central_pressure",
                          "storm_radius", "write", "return", "done"}

\* C15: the eye moves at constant velocity from (-80, 15): sample i lies at
\* (-80 + v_lon * t_i, 15 + v_lat * t_i) with v_lon = -v_lat < 0, so that
\* longitude and latitude always sum to -65; between a sample and any later
\* one (in time) the longitude strictly decreases, the latitude strictly
\* increases, and the displacement is v times the time difference (to the
\* last digit of the fixed point).
C15_EyeMovesAtConstantVelocity ==
    HasEyeLocation =>
        /\ v.num[1] = -v.num[2]
        /\ v.num[1] < 0
        /\ Len(my_storm.eye_location) = Len(t_series)
        /\ \A i \in 1..Len(t_series) :
              LET eye == my_storm.eye_location[i]
              IN  /\ eye[1] = eye_init[1] + MulDiv(t_series[i], v.num[1], v.den)
                  /\ eye[2] = eye_init[2] + MulDiv(t_series[i], v.num[2], v.den)
                  /\ eye[1] + eye[2] = -65 * Scale
        /\ \A i, j \in 1..Len(t_series) :
              t_series[i] < t_series[j] =>
                  LET from == my_storm.eye_location[i]
                      to   == my_storm.eye_location[j]
                      d    == MulDiv(t_series[j] - t_series[i], v.num[2], v.den)
                  IN  /\ to[1] < from[1]
                      /\ to[2] > from[2]
                      /\ Abs((to[2] - from[2]) - d) <= 1
                      /\ Abs((from[1] - to[1]) - d) <= 1

C15_Witness ==
    /\ pc = "done"
    /\ caller = "setrun"
    /\ my_storm.eye_location[1] = eye_init
    /\ my_storm.eye_location[forecasts][1] < -98 * Scale
    /\ my_storm.eye_location[forecasts][1] > -99 * Scale
    /\ my_storm.eye_location[forecasts][2] > 33 * Scale
    /\ my_storm.eye_location[forecasts][2] < 34 * Scale

\* C16: the path recorded in surge_data.storm_file names the file that
\* my_storm.write produces: whenever the file has been written its path is
\* the recorded one; the path is recorded while no file has been written
\* yet, the working directory never changes during setgeo, and the recorded
\* path is never updated afterwards.
C16_StormFileNamesWrittenFile ==
    /\ [](storm_file # None =>
             /\ surge_data # None
             /\ surge_data.storm_file = storm_file.path)
    /\ [][surge_data' # surge_data =>
             /\ surge_data = None
             /\ storm_file = None
             /\ storm_file' = None
             /\ surge_data'.storm_file = cwd \o <<"my_storm.storm">>]_vars
    /\ [][cwd' = cwd]_vars

C16_Witness ==
    /\ pc = "done"
    /\ cwd = <<"home", "run">>
    /\ surge_data.storm_file = <<"home", "run", "my_storm.storm">>
    /\ storm_file.path = <<"home", "run", "my_storm.storm">>
    /\ storm_file.storm = my_storm

====
